---------------------------- MODULE Spec2Model ----------------------------
(***************************************************************************)
(* The quiz session of streamlit_app.py: the question bank, the setup      *)
(* page's filters, the sampled problem list, answer submission with its    *)
(* name normalisation, the Next button and the two reset buttons.          *)
(*                                                                         *)
(* st.session_state is one dictionary in the source and one record here;   *)
(* the handlers are operators from a session state to the session state    *)
(* they leave, and an action is a user interaction: the handler followed   *)
(* by the script run that Streamlit performs after it.                     *)
(*                                                                         *)
(* A Python str is a sequence of one-character strings, so that lower(),   *)
(* strip() and replace() are computed character by character.              *)
(***************************************************************************)
EXTENDS Naturals, Sequences, FiniteSets

VARIABLES
    practice_problems,  \* the question bank, a sequence of problem records
    session_state,      \* st.session_state
    op,                 \* the last user interaction and what it did
    answer_text,        \* normalisation harness: a name string
    processed_once,     \* normalisation harness: the string normalised
    processed_twice,    \* normalisation harness: the string normalised twice
    verdict_check,      \* verdict harness: two answers and their verdicts
    text_block,         \* extraction harness: the lines of a response text
    extracted,          \* extraction harness: what the extraction returned
    second_run          \* two-run harness: st.session_state of a second run

vars == <<practice_problems, session_state, op,
          answer_text, processed_once, processed_twice,
          verdict_check, text_block, extracted, second_run>>

---------------------------------------------------------------------------
(* Bounds of the model. *)

\* Most records of a bank the validation harness enumerates.
MaxBankLen == 3
\* Most lines of a response text the extraction harness enumerates.
MaxLines == 3
\* Longest name string the normalisation harness enumerates.
MaxNameLen == 3
\* Most tags one multiselect of the setup page holds selected.
MaxSelected == 1
\* Largest count the number input is set to.
MaxRequested == 3
\* Calls of the explanation service for one problem that are told apart.
MaxGatewayCalls == 2

---------------------------------------------------------------------------
(* Python calls. *)

\* Python evaluates an argument once, before the call: Applied(F, x) is F(x)
\* with x evaluated once, however often the body of F reads it.
Applied(F(_), x) == CHOOSE result \in {F(value) : value \in {x}} : TRUE

---------------------------------------------------------------------------
(* Python strings. *)

UpperCase == <<"A", "B", "C", "D", "E", "F", "G", "H", "I", "J", "K", "L", "M",
               "N", "O", "P", "Q", "R", "S", "T", "U", "V", "W", "X", "Y", "Z">>
LowerCase == <<"a", "b", "c", "d", "e", "f", "g", "h", "i", "j", "k", "l", "m",
               "n", "o", "p", "q", "r", "s", "t", "u", "v", "w", "x", "y", "z">>

\* The characters str.strip() removes from both ends (those the model uses).
Whitespace == {" ", "\t"}

\* str.lower() on one character.
LowerChar(c) ==
    IF \E i \in 1..Len(UpperCase) : UpperCase[i] = c
    THEN LowerCase[CHOOSE i \in 1..Len(UpperCase) : UpperCase[i] = c]
    ELSE c

\* str.lower()
lower(string) ==
    Applied(LAMBDA s :
        [i \in 1..Len(s) |-> LowerChar(s[i])], string)

\* str.strip(): drop the leading and the trailing run of whitespace.
strip(string) ==
    Applied(LAMBDA s :
        LET inner == {i \in 1..Len(s) : s[i] \notin Whitespace}
        IN  IF inner = {} THEN <<>>
            ELSE LET first == CHOOSE i \in inner : \A j \in inner : i <= j
                     last  == CHOOSE i \in inner : \A j \in inner : j <= i
                 IN  SubSeq(s, first, last), string)

\* str.replace(c, ""): drop every occurrence of the character c.
RECURSIVE remove(_, _)
remove(string, c) ==
    Applied(LAMBDA s :
        IF s = <<>> THEN <<>>
        ELSE IF Head(s) = c THEN remove(Tail(s), c)
                            ELSE <<Head(s)>> \o remove(Tail(s), c), string)

\* x.lower().strip().replace(" ", "").replace("-", "")
processed(s) == remove(remove(strip(lower(s)), " "), "-")

---------------------------------------------------------------------------
(* The question bank. *)

\* None, the value of current_mol_smiles when there is no molecule.
None == "None"

\* Python truthiness of a str-or-None value.
Falsy(x) == x = None \/ x = ""

\* Names of the bank, as character sequences.
methane == <<"m", "e", "t", "h", "a", "n", "e">>
propan_2_ol == <<"p", "r", "o", "p", "a", "n", "-", "2", "-", "o", "l">>
bromobutenol == <<"2", "-", "b", "r", "o", "m", "o", "b", "u", "t", "-", "3", "-",
                  "e", "n", "-", "1", "-", "o", "l">>
ethanol == <<"e", "t", "h", "a", "n", "o", "l">>
ethyl_alcohol == <<"e", "t", "h", "y", "l", " ", "a", "l", "c", "o", "h", "o", "l">>
ethenol == <<"e", "t", "h", "e", "n", "o", "l">>
isopropanol == <<"i", "s", "o", "p", "r", "o", "p", "a", "n", "o", "l">>
butane == <<"b", "u", "t", "a", "n", "e">>

\* Four entries of practice_problems, in the bank's order: lines 58, 110, 140
\* and 175.  Lines 140 and 175 are the same entry written twice.
BankProblems ==
    << [smiles |-> "C", name |-> methane, condensed |-> "CH4",
        category |-> "Straight-chain Alkane", difficulty |-> "Easy"],
       [smiles |-> "CC(O)C", name |-> propan_2_ol, condensed |-> "CH3CH(OH)CH3",
        category |-> "Alkanol", difficulty |-> "Medium"],
       [smiles |-> "C=CC(Br)CO", name |-> bromobutenol,
        condensed |-> "CH2=CHCH(Br)CH2OH",
        category |-> "Mixed Functional Groups", difficulty |-> "Hard"],
       [smiles |-> "C=CC(Br)CO", name |-> bromobutenol,
        condensed |-> "CH2=CHCH(Br)CH2OH",
        category |-> "Mixed Functional Groups", difficulty |-> "Hard"] >>

\* A bank that uses the optional keys the handlers read: alternative_names as a
\* list and as a bare str, common_errors, and a SMILES string RDKit rejects.
OptionalKeyProblems ==
    << [smiles |-> "CCO", name |-> ethanol, condensed |-> "CH3CH2OH",
        category |-> "Alkanol", difficulty |-> "Easy",
        alternative_names |-> [list |-> <<ethyl_alcohol>>],
        common_errors |-> << [incorrect_name |-> ethenol,
                              explanation |-> "ethenol is an alkene" ] >>],
       [smiles |-> "CC(O)C", name |-> propan_2_ol, condensed |-> "CH3CH(OH)CH3",
        category |-> "Alkanol", difficulty |-> "Medium",
        alternative_names |-> [str |-> isopropanol]],
       [smiles |-> "C(C", name |-> butane, condensed |-> "CH3CH2CH2CH3",
        category |-> "Straight-chain Alkane", difficulty |-> "Medium"] >>

\* The banks the model starts from; the empty bank exercises the safeguards of
\* setup_new_quiz_st.
Banks == {BankProblems, OptionalKeyProblems, <<>>}

\* SMILES strings RDKit rejects: an unclosed branch is a syntax error, a
\* carbon with five bonds parses but fails sanitization.
SyntaxErrorSmiles == {"C(C"}
ValenceErrorSmiles == {"C(C)(C)(C)(C)C"}

\* Chem.MolFromSmiles(smiles): whether RDKit returns a molecule.  Every SMILES
\* of the bank parses.
MolFromSmiles(smiles) == smiles \notin SyntaxErrorSmiles \cup ValenceErrorSmiles

\* Chem.MolFromSmiles(smiles, sanitize=False)
MolFromSmilesNoSanitize(smiles) == smiles \notin SyntaxErrorSmiles

\* mol.GetNumAtoms() == 0: a string of whitespace parses to an empty molecule.
HasNoAtoms(smiles) == smiles = " "

\* dict.get(key) with None for a missing key.
Get(d, key) == IF key \in DOMAIN d THEN d[key] ELSE None

\* The elements of a list.
Elems(l) == {l[i] : i \in 1..Len(l)}

---------------------------------------------------------------------------
(* validate_smiles_in_practice_problems. *)

\* {**problem, ...}: the record with further keys.
WithKeys(problem, more) ==
    [key \in (DOMAIN problem) \cup (DOMAIN more) |->
        IF key \in DOMAIN more THEN more[key] ELSE problem[key]]

\* Lines 203-211: the error detail of a SMILES string that does not parse.
error_detail_of(smiles) ==
    IF ~MolFromSmilesNoSanitize(smiles)
    THEN "SMILES syntax error (failed even without sanitization)."
    ELSE "Sanitization error"

\* Mutant of validation_loop: an entry without a SMILES string is skipped.
RECURSIVE validation_loop_skipping_missing(_, _)
validation_loop_skipping_missing(problems_list, i) ==
    IF i > Len(problems_list)
    THEN [invalid_smiles_entries |-> <<>>, validation_messages |-> <<>>]
    ELSE LET problem == problems_list[i]
             smiles == Get(problem, "smiles")
             rest == validation_loop_skipping_missing(problems_list, i + 1)
         IN  IF ~Falsy(smiles) /\ ~MolFromSmiles(smiles)
             THEN [invalid_smiles_entries |->
                       << WithKeys(problem, [index |-> i,
                                             error_type |-> error_detail_of(smiles),
                                             original_smiles |-> smiles]) >>
                       \o rest.invalid_smiles_entries,
                   validation_messages |-> rest.validation_messages]
             ELSE rest

\* The loop of lines 192-221 from entry i on (i counts from 1, as the
\* messages and the "index" key do): what it appends to the two lists.
RECURSIVE validation_loop(_, _)
validation_loop(problems_list, i) ==
    IF i > Len(problems_list)
    THEN [invalid_smiles_entries |-> <<>>, validation_messages |-> <<>>]
    ELSE LET problem == problems_list[i]
             smiles == Get(problem, "smiles")
             name == IF "name" \in DOMAIN problem THEN problem.name ELSE "N/A"
             rest == validation_loop(problems_list, i + 1)
             this ==
                 IF Falsy(smiles)
                 THEN [invalid_smiles_entries |->
                           << WithKeys(problem, [index |-> i,
                                                 error_type |-> "Missing SMILES"]) >>,
                       validation_messages |->
                           << [msg |-> "has no SMILES string", entry |-> i,
                               name |-> name] >>]
                 ELSE IF ~MolFromSmiles(smiles)
                 THEN [invalid_smiles_entries |->
                           << WithKeys(problem,
                                       [index |-> i,
                                        error_type |-> error_detail_of(smiles),
                                        original_smiles |-> smiles]) >>,
                       validation_messages |->
                           << [msg |-> "Invalid SMILES", entry |-> i, name |-> name,
                               smiles |-> smiles,
                               detail |-> error_detail_of(smiles)] >>]
                 ELSE IF HasNoAtoms(smiles) /\ smiles \notin {"", " "}
                 THEN [invalid_smiles_entries |-> <<>>,
                       validation_messages |->
                           << [msg |-> "molecule with 0 atoms", entry |-> i,
                               name |-> name, smiles |-> smiles] >>]
                 ELSE [invalid_smiles_entries |-> <<>>, validation_messages |-> <<>>]
         IN  [invalid_smiles_entries |->
                  this.invalid_smiles_entries \o rest.invalid_smiles_entries,
              validation_messages |->
                  this.validation_messages \o rest.validation_messages]

\* The pair the function returns.
validate_smiles_in_practice_problems(problems_list) ==
    LET header == << [msg |-> "--- Validating SMILES Strings ---"] >>
    IN  IF problems_list = <<>>
        THEN [invalid_smiles_entries |-> <<>>,
              validation_messages |->
                  header \o << [msg |-> "Practice problems list is empty."] >>]
        ELSE LET looped == validation_loop(problems_list, 1)
                 summary ==
                     IF looped.invalid_smiles_entries = <<>>
                     THEN [msg |-> "All SMILES strings are valid!"]
                     ELSE [msg |-> "entries with SMILES errors",
                           found |-> Len(looped.invalid_smiles_entries)]
             IN  [invalid_smiles_entries |-> looped.invalid_smiles_entries,
                  validation_messages |->
                      header \o looped.validation_messages \o <<summary>>
                      \o << [msg |-> "--- Validation Complete ---"] >>]

---------------------------------------------------------------------------
(* st.session_state and its defaults. *)

\* The default of num_problems_requested.
DefaultNumProblems == 5

\* The defaults dictionary of initialize_session_state.  A message is a list
\* of its parts, "" the empty list.
defaults ==
    [app_stage |-> "setup",
     selected_categories |-> <<>>,
     selected_difficulties |-> <<>>,
     num_problems_requested |-> DefaultNumProblems,
     quiz_problems_list |-> <<>>,
     problem_index |-> 0,
     total_problems_in_quiz |-> 0,
     current_score |-> 0,
     current_mol_smiles |-> None,
     current_correct_name |-> <<>>,
     current_alternative_names |-> <<>>,
     student_answer |-> <<>>,
     is_current_problem_answered |-> FALSE,
     is_current_problem_correct |-> FALSE,
     feedback_message |-> <<>>,
     ai_explanation |-> "",
     last_selected_formula_type |-> "Skeletal",
     disable_answer_input |-> FALSE,
     disable_formula_dropdown |-> FALSE]

\* Every key that is missing gets its default; a key that is present is kept.
initialize_session_state(session) ==
    Applied(LAMBDA ss :
        [key \in (DOMAIN ss) \cup (DOMAIN defaults) |->
            IF key \in DOMAIN ss THEN ss[key] ELSE defaults[key]], session)

\* session_state.pop(key, None) / del session_state[key] for each key present.
Pop(ss, keys) == [key \in (DOMAIN ss) \ keys |-> ss[key]]

---------------------------------------------------------------------------
(* Loading the current problem. *)

\* The feedback of a problem whose SMILES did not load.
LoadErrorMessage == << [part |-> "Problem Loading Error"] >>

\* problem_spec.get('alternative_names', []), a bare str wrapped in a list.
alternative_names_of(problem_spec) ==
    LET alt_names == IF "alternative_names" \in DOMAIN problem_spec
                     THEN problem_spec.alternative_names
                     ELSE [list |-> <<>>]
    IN  IF "str" \in DOMAIN alt_names THEN <<alt_names.str>> ELSE alt_names.list

\* Mutant of load_current_problem_details: the SMILES string is not parsed.
load_without_parse_check(ss) ==
    IF ss.problem_index < ss.total_problems_in_quiz
    THEN LET problem_spec == ss.quiz_problems_list[ss.problem_index + 1]
         IN  [ss EXCEPT
                 !.current_mol_smiles = problem_spec.smiles,
                 !.current_correct_name = problem_spec.name,
                 !.current_alternative_names = alternative_names_of(problem_spec)]
    ELSE [ss EXCEPT !.current_mol_smiles = None]

\* Mutant of load_current_problem_details: the alternative names are not loaded.
load_without_alternative_names(ss) ==
    IF ss.problem_index < ss.total_problems_in_quiz
    THEN LET problem_spec == ss.quiz_problems_list[ss.problem_index + 1]
         IN  [ss EXCEPT !.current_mol_smiles = problem_spec.smiles,
                        !.current_correct_name = problem_spec.name]
    ELSE [ss EXCEPT !.current_mol_smiles = None]

load_current_problem_details(session) ==
    Applied(LAMBDA ss :
        IF "problem_index" \notin DOMAIN ss \/ "quiz_problems_list" \notin DOMAIN ss
        THEN [ss EXCEPT !.app_stage = "setup"]
        ELSE IF ss.problem_index < ss.total_problems_in_quiz
        THEN LET problem_spec == ss.quiz_problems_list[ss.problem_index + 1]
                 loaded == [ss EXCEPT
                     !.current_mol_smiles = problem_spec.smiles,
                     !.current_correct_name = problem_spec.name,
                     !.current_alternative_names = alternative_names_of(problem_spec)]
             IN  IF ~MolFromSmiles(loaded.current_mol_smiles)
                 THEN [loaded EXCEPT
                     !.is_current_problem_answered = TRUE,
                     !.disable_answer_input = TRUE,
                     !.disable_formula_dropdown = TRUE,
                     !.feedback_message = LoadErrorMessage,
                     !.current_mol_smiles = None]
                 ELSE loaded
        ELSE [ss EXCEPT !.current_mol_smiles = None], session)

---------------------------------------------------------------------------
(* The explanation service. *)

\* What the try block of get_ai_nomenclature_explanation_st can return: the
\* extracted list of wrong steps, nothing (no step was marked wrong), or the
\* diagnostic of a call that raised.
ExtractedExplanation == "<ul><li>Step 1 (Incorrect)</li><li>Comment</li></ul>"
GatewayError == "Error calling Gemini API"
GatewayResponses == {ExtractedExplanation, "", GatewayError}

get_ai_nomenclature_explanation_st(genai_service_available, response) ==
    IF ~genai_service_available
    THEN "AI explanation service is not available."
    ELSE response

---------------------------------------------------------------------------
(* extract_error_steps_and_comments.  A line of the response is a sequence  *)
(* of tokens: the prefix "Step ", the prefix "Comment:", the two marks, a   *)
(* bullet, a whitespace character or a word.                                *)

\* The marks U+274C and U+2705.
CrossMark == "cross mark"
CheckMark == "check mark"

\* str.startswith and str.endswith for a one-token prefix or suffix.
startswith(s, token) == s # <<>> /\ s[1] = token
endswith(s, token) == s # <<>> /\ s[Len(s)] = token

\* str.lstrip()
lstrip(s) ==
    LET inner == {i \in 1..Len(s) : s[i] \notin Whitespace}
    IN  IF inner = {} THEN <<>>
        ELSE SubSeq(s, CHOOSE i \in inner : \A j \in inner : i <= j, Len(s))

\* Lines 349-350: line.strip(), then re.sub(r'^[*-]\s*', '', ...).
processed_line_content(line) ==
    LET cleaned_line_for_processing == strip(line)
    IN  IF \/ startswith(cleaned_line_for_processing, "*")
           \/ startswith(cleaned_line_for_processing, "-")
        THEN lstrip(Tail(cleaned_line_for_processing))
        ELSE cleaned_line_for_processing

\* Line 344, text_block.strip().split('\n'), on a text given as its lines:
\* the whitespace-only lines at both ends go, and a text without any other
\* line is one empty line.  (The whitespace strip() takes from the first and
\* the last line is taken again by line 349.)
split_lines(text) ==
    LET inner == {i \in 1..Len(text) : strip(text[i]) # <<>>}
    IN  IF inner = {} THEN << <<>> >>
        ELSE SubSeq(text, CHOOSE i \in inner : \A j \in inner : i <= j,
                          CHOOSE i \in inner : \A j \in inner : j <= i)

\* Mutant of result_line_positions: a step that is not an error does not
\* reset last_step_was_error.
RECURSIVE result_line_positions_without_reset(_, _, _)
result_line_positions_without_reset(lines, i, last_step_was_error) ==
    IF i > Len(lines) THEN <<>>
    ELSE LET content == processed_line_content(lines[i])
         IN  IF startswith(content, "Step ") /\ endswith(content, CrossMark)
             THEN <<i>> \o result_line_positions_without_reset(lines, i + 1, TRUE)
             ELSE IF startswith(content, "Comment:") /\ last_step_was_error
             THEN <<i>> \o result_line_positions_without_reset(
                               lines, i + 1, last_step_was_error)
             ELSE result_line_positions_without_reset(
                      lines, i + 1, last_step_was_error)

\* The loop of lines 348-360 from line i on: the positions of the lines it
\* appends to result_lines.
RECURSIVE result_line_positions(_, _, _)
result_line_positions(lines, i, last_step_was_error) ==
    IF i > Len(lines) THEN <<>>
    ELSE LET content == processed_line_content(lines[i])
         IN  IF startswith(content, "Step ") /\ endswith(content, CrossMark)
             THEN <<i>> \o result_line_positions(lines, i + 1, TRUE)
             ELSE IF startswith(content, "Step ")
             THEN result_line_positions(lines, i + 1, FALSE)
             ELSE IF startswith(content, "Comment:") /\ last_step_was_error
             THEN <<i>> \o result_line_positions(lines, i + 1, last_step_was_error)
             ELSE result_line_positions(lines, i + 1, last_step_was_error)

\* res_line.replace(mark, mark + suffix), line 365.
RECURSIVE replace_mark(_, _, _)
replace_mark(s, mark, suffix) ==
    IF s = <<>> THEN <<>>
    ELSE (IF Head(s) = mark THEN <<mark, " ", suffix>> ELSE <<Head(s)>>)
         \o replace_mark(Tail(s), mark, suffix)

\* ''.join(...)
RECURSIVE join(_)
join(items) == IF items = <<>> THEN <<>> ELSE Head(items) \o join(Tail(items))

\* Lines 362-366: the empty string, or the list of the retained lines.
html_list(result_lines) ==
    IF result_lines = <<>> THEN <<>>
    ELSE LET html_list_items ==
                 [k \in 1..Len(result_lines) |->
                     <<"<li>">>
                     \o replace_mark(replace_mark(result_lines[k],
                                                  CrossMark, "(Incorrect)"),
                                     CheckMark, "(Correct)")
                     \o <<"</li>">>]
         IN  <<"<ul>">> \o join(html_list_items) \o <<"</ul>">>

extract_error_steps_and_comments(text) ==
    LET lines == split_lines(text)
        positions == result_line_positions(lines, 1, FALSE)
        result_lines ==
            [k \in 1..Len(positions) |-> processed_line_content(lines[positions[k]])]
    IN  html_list(result_lines)

---------------------------------------------------------------------------
(* Submitting an answer. *)

\* The comparison of lines 429-434.
is_correct(student_answer, correct_name, alternative_names) ==
    LET processed_student_answer == processed(student_answer)
        processed_correct_name == processed(correct_name)
        processed_alt_names ==
            [i \in 1..Len(alternative_names) |-> processed(alternative_names[i])]
    IN  \/ processed_student_answer = processed_correct_name
        \/ processed_student_answer \in Elems(processed_alt_names)

\* The loop of lines 454-462: the explanations of the common_errors entries
\* whose name matches, in the entries' order (the loop stops at the first).
custom_explanations(ss) ==
    LET problem_spec == ss.quiz_problems_list[ss.problem_index + 1]
        entries == IF "common_errors" \in DOMAIN problem_spec
                   THEN problem_spec.common_errors ELSE <<>>
        hits == SelectSeq(entries, LAMBDA error_entry :
                    processed(ss.student_answer) = processed(error_entry.incorrect_name))
    IN  [i \in 1..Len(hits) |-> hits[i].explanation]

\* Mutant of gateway_invoked: the guard of line 422 does not keep an answered
\* problem from reaching the service again.
gateway_invoked_when_answered(ss, genai_service_available) ==
    /\ ~is_correct(ss.student_answer, ss.current_correct_name,
                   ss.current_alternative_names)
    /\ custom_explanations(ss) = <<>>
    /\ genai_service_available

\* Mutant of gateway_invoked: a custom explanation does not keep the handler
\* from calling the service.
gateway_invoked_despite_custom(ss, genai_service_available) ==
    /\ ~ss.is_current_problem_answered
    /\ ~is_correct(ss.student_answer, ss.current_correct_name,
                   ss.current_alternative_names)
    /\ genai_service_available

\* Mutant of gateway_invoked: the handler does not look at the service's
\* availability.
gateway_invoked_when_unavailable(ss, genai_service_available) ==
    /\ ~ss.is_current_problem_answered
    /\ ~is_correct(ss.student_answer, ss.current_correct_name,
                   ss.current_alternative_names)
    /\ custom_explanations(ss) = <<>>

\* Whether this submission reaches the call of line 467.
gateway_invoked(ss, genai_service_available) ==
    /\ ~ss.is_current_problem_answered
    /\ ~is_correct(ss.student_answer, ss.current_correct_name,
                   ss.current_alternative_names)
    /\ custom_explanations(ss) = <<>>
    /\ genai_service_available

\* Mutant of handle_answer_submission_st: the guard of line 422 is missing.
handle_answer_submission_unguarded(ss, genai_service_available, response) ==
    IF is_correct(ss.student_answer, ss.current_correct_name,
                  ss.current_alternative_names)
    THEN [ss EXCEPT !.is_current_problem_answered = TRUE,
                    !.is_current_problem_correct = TRUE,
                    !.current_score = @ + 1]
    ELSE [ss EXCEPT !.is_current_problem_answered = TRUE,
                    !.is_current_problem_correct = FALSE]

\* Mutant of handle_answer_submission_st: an answer in which the service
\* finds no wrong step counts as right.
handle_answer_submission_trusting_service(ss, genai_service_available, response) ==
    IF ss.is_current_problem_answered THEN ss
    ELSE IF \/ is_correct(ss.student_answer, ss.current_correct_name,
                          ss.current_alternative_names)
            \/ genai_service_available /\ response = ""
    THEN [ss EXCEPT !.is_current_problem_answered = TRUE,
                    !.is_current_problem_correct = TRUE,
                    !.current_score = @ + 1]
    ELSE [ss EXCEPT !.is_current_problem_answered = TRUE,
                    !.is_current_problem_correct = FALSE,
                    !.ai_explanation =
                        IF genai_service_available THEN response ELSE ""]

\* Mutant of handle_answer_submission_st: a wrong answer costs a point.
handle_answer_submission_penalty(ss, genai_service_available, response) ==
    IF ss.is_current_problem_answered THEN ss
    ELSE IF is_correct(ss.student_answer, ss.current_correct_name,
                       ss.current_alternative_names)
    THEN [ss EXCEPT !.is_current_problem_answered = TRUE,
                    !.is_current_problem_correct = TRUE,
                    !.current_score = @ + 1]
    ELSE [ss EXCEPT !.is_current_problem_answered = TRUE,
                    !.is_current_problem_correct = FALSE,
                    !.current_score = IF @ > 0 THEN @ - 1 ELSE 0]

handle_answer_submission_st(session, genai_service_available, response) ==
    Applied(LAMBDA ss :
        IF ss.is_current_problem_answered THEN ss
        ELSE
        LET student_answer == ss.student_answer
            correct_name == ss.current_correct_name
            alternative_names == ss.current_alternative_names
            answered == [ss EXCEPT !.is_current_problem_answered = TRUE,
                                   !.disable_answer_input = TRUE,
                                   !.disable_formula_dropdown = TRUE]
        IN  IF is_correct(student_answer, correct_name, alternative_names)
            THEN [answered EXCEPT
                     !.is_current_problem_correct = TRUE,
                     !.current_score = @ + 1,
                     !.feedback_message =
                         << [part |-> "Correct", name |-> correct_name] >>]
            ELSE
            LET custom == custom_explanations(ss)
                custom_explanation_found == custom # <<>>
                feedback_parts ==
                    << [part |-> "Incorrect"],
                       [part |-> "Your answer", answer |-> student_answer],
                       [part |-> "Correct answer(s)", name |-> correct_name,
                        alternatives |-> alternative_names] >>
                    \o (IF custom_explanation_found
                        THEN << [part |-> "Explanation for your answer",
                                 explanation |-> Head(custom)] >>
                        ELSE <<>>)
            IN  [answered EXCEPT
                     !.is_current_problem_correct = FALSE,
                     !.feedback_message = feedback_parts,
                     !.ai_explanation =
                         IF ~custom_explanation_found /\ genai_service_available
                         THEN get_ai_nomenclature_explanation_st(
                                  genai_service_available, response)
                         ELSE ""], session)

\* Mutant of submission_committed: the service is called before the handler
\* has written anything.
submission_uncommitted(ss) == ss

\* The session state when the handler reaches the call of line 467: lines
\* 425-464 have run, the assignment of line 467 has not.
submission_committed(ss) ==
    [handle_answer_submission_st(ss, FALSE, "") EXCEPT
        !.ai_explanation = ss.ai_explanation]

---------------------------------------------------------------------------
(* The Next button's callback. *)

\* Mutant of go_to_next_problem_callback: the quiz ends one advance late.
go_to_next_problem_late_finish(ss) ==
    LET reset == [ss EXCEPT
            !.problem_index = @ + 1,
            !.student_answer = <<>>,
            !.is_current_problem_answered = FALSE,
            !.is_current_problem_correct = FALSE,
            !.feedback_message = <<>>,
            !.ai_explanation = "",
            !.disable_answer_input = FALSE,
            !.disable_formula_dropdown = FALSE]
    IN  IF reset.problem_index > reset.total_problems_in_quiz
        THEN [reset EXCEPT !.app_stage = "results"]
        ELSE load_current_problem_details(reset)

\* Mutant of go_to_next_problem_callback: the problem that was answered is
\* taken off the list and the index stays.
go_to_next_problem_consuming(ss) ==
    LET reset == [ss EXCEPT
            !.quiz_problems_list = Tail(@),
            !.total_problems_in_quiz = @ - 1,
            !.student_answer = <<>>,
            !.is_current_problem_answered = FALSE,
            !.is_current_problem_correct = FALSE,
            !.feedback_message = <<>>,
            !.ai_explanation = "",
            !.disable_answer_input = FALSE,
            !.disable_formula_dropdown = FALSE]
    IN  IF reset.problem_index >= reset.total_problems_in_quiz
        THEN [reset EXCEPT !.app_stage = "results"]
        ELSE load_current_problem_details(reset)

\* Mutant of go_to_next_problem_callback: the call of line 490 is missing, so
\* the details of the previous problem stay loaded.
go_to_next_problem_without_load(ss) ==
    LET reset == [ss EXCEPT
            !.problem_index = @ + 1,
            !.student_answer = <<>>,
            !.is_current_problem_answered = FALSE,
            !.is_current_problem_correct = FALSE,
            !.feedback_message = <<>>,
            !.ai_explanation = "",
            !.disable_answer_input = FALSE,
            !.disable_formula_dropdown = FALSE]
    IN  IF reset.problem_index >= reset.total_problems_in_quiz
        THEN [reset EXCEPT !.app_stage = "results"]
        ELSE reset

\* Mutant of go_to_next_problem_callback: the index moves by two.
go_to_next_problem_skipping(ss) ==
    LET reset == [ss EXCEPT
            !.problem_index = @ + 2,
            !.student_answer = <<>>,
            !.is_current_problem_answered = FALSE,
            !.is_current_problem_correct = FALSE,
            !.feedback_message = <<>>,
            !.ai_explanation = "",
            !.disable_answer_input = FALSE,
            !.disable_formula_dropdown = FALSE]
    IN  IF reset.problem_index >= reset.total_problems_in_quiz
        THEN [reset EXCEPT !.app_stage = "results"]
        ELSE load_current_problem_details(reset)

go_to_next_problem_callback(session) ==
    Applied(LAMBDA ss :
        LET reset == [ss EXCEPT
                !.problem_index = @ + 1,
                !.student_answer = <<>>,
                !.is_current_problem_answered = FALSE,
                !.is_current_problem_correct = FALSE,
                !.feedback_message = <<>>,
                !.ai_explanation = "",
                !.disable_answer_input = FALSE,
                !.disable_formula_dropdown = FALSE]
        IN  IF reset.problem_index >= reset.total_problems_in_quiz
            THEN [reset EXCEPT !.app_stage = "results"]
            ELSE load_current_problem_details(reset), session)

---------------------------------------------------------------------------
(* Starting a quiz. *)

\* The permutations of 1..n: the outcomes of the random number generator.
Permutations(n) ==
    {f \in [1..n -> 1..n] : \A i, j \in 1..n : f[i] = f[j] => i = j}

\* random.sample(population, k): k entries at distinct positions of the
\* population, in the order the generator rnd (a permutation of at least
\* Len(population) positions) visits them.
random_sample(population, k, rnd) ==
    LET order == SelectSeq(rnd, LAMBDA i : i <= Len(population))
    IN  [j \in 1..k |-> population[order[j]]]

\* Mutant of filtered_problems: the difficulty filter is not applied.
filtered_by_category_only(ss, bank) ==
    IF ss.selected_categories # <<>>
    THEN SelectSeq(bank, LAMBDA p : Get(p, "category") \in Elems(ss.selected_categories))
    ELSE bank

\* The filtering of lines 493-503.
filtered_problems(ss, bank) ==
    LET selected_cats == IF "selected_categories" \in DOMAIN ss
                         THEN ss.selected_categories ELSE <<>>
        selected_diffs == IF "selected_difficulties" \in DOMAIN ss
                          THEN ss.selected_difficulties ELSE <<>>
        by_category ==
            IF selected_cats # <<>>
            THEN SelectSeq(bank, LAMBDA p : Get(p, "category") \in Elems(selected_cats))
            ELSE bank
    IN  IF selected_diffs # <<>>
        THEN SelectSeq(by_category,
                       LAMBDA p : Get(p, "difficulty") \in Elems(selected_diffs))
        ELSE by_category

Min(a, b) == IF a <= b THEN a ELSE b

\* Mutant of setup_new_quiz_st: the per-problem fields of lines 538-544 are
\* reset before the checks for an empty selection.
setup_new_quiz_resetting_first(ss, bank, rnd) ==
    LET filtered == IF filtered_problems(ss, bank) = <<>>
                       /\ ss.selected_categories = <<>>
                       /\ ss.selected_difficulties = <<>>
                    THEN bank ELSE filtered_problems(ss, bank)
        cleared == [ss EXCEPT
                       !.problem_index = 0,
                       !.current_score = 0,
                       !.student_answer = <<>>,
                       !.is_current_problem_answered = TRUE,
                       !.feedback_message = <<>>]
    IN  IF filtered = <<>> \/ Min(ss.num_problems_requested, Len(filtered)) = 0
        THEN cleared
        ELSE load_current_problem_details(
                 [cleared EXCEPT
                     !.quiz_problems_list =
                         random_sample(filtered,
                             Min(ss.num_problems_requested, Len(filtered)), rnd),
                     !.total_problems_in_quiz =
                         Min(ss.num_problems_requested, Len(filtered)),
                     !.app_stage = "quiz",
                     !.is_current_problem_answered = FALSE,
                     !.is_current_problem_correct = FALSE,
                     !.ai_explanation = "",
                     !.disable_answer_input = FALSE,
                     !.disable_formula_dropdown = FALSE])

\* Mutant of setup_new_quiz_st: the score and the index are not reset.
setup_new_quiz_keeping_score(ss, bank, rnd) ==
    IF filtered_problems(ss, bank) = <<>>
    THEN ss
    ELSE LET filtered == filtered_problems(ss, bank)
             actual_num_problems == Min(ss.num_problems_requested, Len(filtered))
         IN  load_current_problem_details(
                 [ss EXCEPT
                     !.quiz_problems_list =
                         random_sample(filtered, actual_num_problems, rnd),
                     !.total_problems_in_quiz = actual_num_problems,
                     !.app_stage = "quiz",
                     !.student_answer = <<>>,
                     !.is_current_problem_answered = FALSE,
                     !.is_current_problem_correct = FALSE,
                     !.feedback_message = <<>>,
                     !.ai_explanation = "",
                     !.disable_answer_input = FALSE,
                     !.disable_formula_dropdown = FALSE])

\* Mutant of setup_new_quiz_st: a selection that matches nothing clears the
\* filters before returning.
setup_new_quiz_clearing_filters(ss, bank, rnd) ==
    IF filtered_problems(ss, bank) = <<>>
    THEN [ss EXCEPT !.selected_categories = <<>>, !.selected_difficulties = <<>>]
    ELSE LET filtered == filtered_problems(ss, bank)
             actual_num_problems == Min(ss.num_problems_requested, Len(filtered))
         IN  load_current_problem_details(
                 [ss EXCEPT
                     !.quiz_problems_list =
                         random_sample(filtered, actual_num_problems, rnd),
                     !.total_problems_in_quiz = actual_num_problems,
                     !.problem_index = 0,
                     !.current_score = 0,
                     !.app_stage = "quiz",
                     !.student_answer = <<>>,
                     !.is_current_problem_answered = FALSE,
                     !.is_current_problem_correct = FALSE,
                     !.feedback_message = <<>>,
                     !.ai_explanation = "",
                     !.disable_answer_input = FALSE,
                     !.disable_formula_dropdown = FALSE])

setup_new_quiz_st(ss, bank, rnd) ==
    LET selected_cats == IF "selected_categories" \in DOMAIN ss
                         THEN ss.selected_categories ELSE <<>>
        selected_diffs == IF "selected_difficulties" \in DOMAIN ss
                          THEN ss.selected_difficulties ELSE <<>>
        matching == filtered_problems(ss, bank)
    IN  IF matching = <<>> /\ (selected_cats # <<>> \/ selected_diffs # <<>>)
        THEN ss                                     \* line 514
        ELSE
        LET filtered == IF matching = <<>> THEN bank ELSE matching
        IN  IF filtered = <<>>
            THEN ss                                 \* line 521
            ELSE
            LET num_req == ss.num_problems_requested
                actual_num_problems == Min(num_req, Len(filtered))
            IN  IF actual_num_problems = 0
                THEN ss                             \* line 529
                ELSE load_current_problem_details(
                    [ss EXCEPT
                        !.quiz_problems_list =
                            random_sample(filtered, actual_num_problems, rnd),
                        !.total_problems_in_quiz = actual_num_problems,
                        !.problem_index = 0,
                        !.current_score = 0,
                        !.app_stage = "quiz",
                        !.student_answer = <<>>,
                        !.is_current_problem_answered = FALSE,
                        !.is_current_problem_correct = FALSE,
                        !.feedback_message = <<>>,
                        !.ai_explanation = "",
                        !.disable_answer_input = FALSE,
                        !.disable_formula_dropdown = FALSE])

---------------------------------------------------------------------------
(* A script run: Streamlit runs the script again after every interaction. *)

\* The part of display_quiz_page_st that writes the session state, lines
\* 651-669: a problem without a molecule is loaded again and marked answered.
display_quiz_page_st(session) ==
    Applied(LAMBDA ss :
        LET reloaded ==
                IF /\ Falsy(ss.current_mol_smiles)
                   /\ ss.problem_index < ss.total_problems_in_quiz
                   /\ ss.quiz_problems_list # <<>>
                THEN load_current_problem_details(ss)
                ELSE ss
        IN  IF /\ Falsy(reloaded.current_mol_smiles)
               /\ reloaded.problem_index < reloaded.total_problems_in_quiz
            THEN [reloaded EXCEPT !.is_current_problem_answered = TRUE]
            ELSE reloaded, session)

\* Line 298 and the router of lines 790-810.  A quiz stage without problems
\* goes back to setup, whose page writes nothing.
script_run(session) ==
    Applied(LAMBDA ss :
        LET state == initialize_session_state(ss)
        IN  IF state.app_stage = "quiz"
            THEN IF state.quiz_problems_list = <<>> \/ state.total_problems_in_quiz = 0
                 THEN initialize_session_state([state EXCEPT !.app_stage = "setup"])
                 ELSE display_quiz_page_st(state)
            ELSE IF state.app_stage \in {"setup", "results"}
            THEN state
            ELSE initialize_session_state([state EXCEPT !.app_stage = "setup"]), session)

\* The keys both reset buttons clear.
keys_to_clear ==
    {"quiz_problems_list", "problem_index", "total_problems_in_quiz",
     "current_score", "current_mol_smiles", "current_correct_name",
     "current_alternative_names", "student_answer", "is_current_problem_answered",
     "is_current_problem_correct", "feedback_message", "ai_explanation",
     "disable_answer_input", "disable_formula_dropdown"}

\* Mutant of reset_to_setup: the score is not among the cleared keys.
reset_to_setup_keeping_score(ss) ==
    initialize_session_state(
        [Pop(ss, keys_to_clear \ {"current_score"}) EXCEPT !.app_stage = "setup"])

\* The body of the "New Practice Setup / Quit Current Practice" button and of
\* the "Start a New Quiz" button.
reset_to_setup(ss) ==
    initialize_session_state([Pop(ss, keys_to_clear) EXCEPT !.app_stage = "setup"])

---------------------------------------------------------------------------
(* The widgets' inputs. *)

\* The distinct values of a key over the bank, in order of first appearance
\* (ordered_categories_options, ordered_difficulties_options).
RECURSIVE ordered_options(_, _, _)
ordered_options(bank, key, seen) ==
    IF bank = <<>> THEN <<>>
    ELSE LET v == Get(Head(bank), key)
         IN  IF v # None /\ v \notin seen
             THEN <<v>> \o ordered_options(Tail(bank), key, seen \cup {v})
             ELSE ordered_options(Tail(bank), key, seen)

\* What a multiselect can hold: at most MaxSelected of its options, listed in
\* the options' order.
Selections(options) ==
    {SelectSeq(options, LAMBDA v : v \in chosen) :
        chosen \in {c \in SUBSET Elems(options) : Cardinality(c) <= MaxSelected}}

\* The names a student types into the answer box.
AnswerPool ==
    { <<"M", "e", "t", "h", "a", "n", "e">>,
      <<"P", "R", "O", "P", "A", "N", " ", "2", " ", "O", "L">>,
      <<"E", "t", "h", "y", "l", "-", "A", "l", "c", "o", "h", "o", "l">>,
      isopropanol,
      <<"E", "T", "H", "E", "N", "O", "L">>,
      <<"p", "r", "o", "p", "a", "n", "o", "l", "2">> }

\* The record of the last interaction: its name, whether it reached the call
\* of the explanation service, whether the current problem was already
\* answered when it began, whether the service was available to it (read by
\* submissions only), how often Next was pressed since the quiz started, and
\* how often the call of line 467 was reached for the current problem
\* (counted up to MaxGatewayCalls).
Did(name, invoked) ==
    [name |-> name, gateway_invoked |-> invoked,
     answered_before |-> session_state.is_current_problem_answered,
     service_available |-> FALSE,
     advances |-> IF name = "next" THEN op.advances + 1
                  ELSE IF name \in {"start", "quit", "restart"} THEN 0
                  ELSE op.advances,
     gateway_calls |-> IF name \in {"next", "start", "quit", "restart"} THEN 0
                       ELSE IF invoked THEN Min(op.gateway_calls + 1, MaxGatewayCalls)
                       ELSE op.gateway_calls]

\* The record of a submission that found the service available or not.
DidSubmit(invoked, genai_service_available) ==
    [Did("submit", invoked) EXCEPT !.service_available = genai_service_available]

\* The record of a run of the validation, with the pair it returned.
DidValidate(report) == WithKeys(Did("validate", FALSE), [report |-> report])

\* The record before the first interaction.
NothingDone ==
    [name |-> "init", gateway_invoked |-> FALSE, answered_before |-> FALSE,
     service_available |-> FALSE, advances |-> 0, gateway_calls |-> 0]

\* The submission handler is inside the call of line 467: the script waits
\* for the explanation service, and the page takes no other interaction.
GatewayPending == op.name = "submit" /\ op.gateway_invoked

---------------------------------------------------------------------------
(* The interactions. *)

HarnessIdle ==
    UNCHANGED <<answer_text, processed_once, processed_twice,
                verdict_check, text_block, extracted, second_run>>

\* The categories multiselect of the setup page.
SelectCategories ==
    /\ session_state.app_stage = "setup"
    /\ \E selection \in Selections(ordered_options(practice_problems, "category", {})) :
          /\ selection # session_state.selected_categories
          /\ session_state' =
                 script_run([session_state EXCEPT !.selected_categories = selection])
    /\ op' = Did("select_categories", FALSE)
    /\ UNCHANGED practice_problems
    /\ HarnessIdle

\* The difficulties multiselect of the setup page.
SelectDifficulties ==
    /\ session_state.app_stage = "setup"
    /\ \E selection \in Selections(ordered_options(practice_problems, "difficulty", {})) :
          /\ selection # session_state.selected_difficulties
          /\ session_state' =
                 script_run([session_state EXCEPT !.selected_difficulties = selection])
    /\ op' = Did("select_difficulties", FALSE)
    /\ UNCHANGED practice_problems
    /\ HarnessIdle

\* The number input of the setup page, from 1 to the size of the bank.
SetNumProblems ==
    /\ session_state.app_stage = "setup"
    /\ \E n \in 1..Min(MaxRequested, Len(practice_problems)) :
          /\ n # session_state.num_problems_requested
          /\ session_state' =
                 script_run([session_state EXCEPT !.num_problems_requested = n])
    /\ op' = Did("set_num_problems", FALSE)
    /\ UNCHANGED practice_problems
    /\ HarnessIdle

\* The validation checkbox of the setup page is ticked: the script runs and
\* validates the bank (lines 641-645).
ValidateBank ==
    /\ session_state.app_stage = "setup"
    /\ session_state' = script_run(session_state)
    /\ op' = DidValidate(validate_smiles_in_practice_problems(practice_problems))
    /\ UNCHANGED practice_problems
    /\ HarnessIdle

\* Mutant of StartPractice: the filters are applied to the bank itself, not
\* to the copy of line 493.
StartPracticeFilteringBank ==
    /\ session_state.app_stage = "setup"
    /\ \E rnd \in Permutations(Len(practice_problems)) :
          LET started == setup_new_quiz_st(session_state, practice_problems, rnd)
          IN  session_state' =
                  IF started.app_stage = "quiz" THEN script_run(started) ELSE started
    /\ op' = Did("start", FALSE)
    /\ practice_problems' = filtered_problems(session_state, practice_problems)
    /\ HarnessIdle

\* The "Start Practice" button: setup_new_quiz_st, and a rerun into the quiz
\* page when the stage changed.
StartPractice ==
    /\ session_state.app_stage = "setup"
    /\ \E rnd \in Permutations(Len(practice_problems)) :
          LET started == setup_new_quiz_st(session_state, practice_problems, rnd)
          IN  session_state' =
                  IF started.app_stage = "quiz" THEN script_run(started) ELSE started
    /\ op' = Did("start", FALSE)
    /\ UNCHANGED practice_problems
    /\ HarnessIdle

\* The answer form is submitted.  The browser disables the text box and the
\* button from the previous run's flags (lines 696 and 701); a form that was
\* already sent once arrives again with the text it held, and the handler's
\* own guard decides.
SubmitAnswer ==
    /\ session_state.app_stage = "quiz"
    /\ ~GatewayPending
    /\ LET box_disabled == \/ session_state.disable_answer_input
                           \/ Falsy(session_state.current_mol_smiles)
       IN  \E text \in (IF box_disabled THEN {session_state.student_answer}
                                        ELSE AnswerPool),
              genai_service_available \in BOOLEAN :
              LET submitted == [session_state EXCEPT !.student_answer = text]
                  invoked == gateway_invoked(submitted, genai_service_available)
              IN  /\ session_state' =
                         IF invoked
                         THEN submission_committed(submitted)
                         ELSE script_run(handle_answer_submission_st(
                                  submitted, genai_service_available, ""))
                  /\ op' = DidSubmit(invoked, genai_service_available)
    /\ UNCHANGED practice_problems
    /\ HarnessIdle

\* The call of line 467 returns: the extracted explanation, nothing, or the
\* diagnostic of a failed call (lines 335-341).  The handler stores it and the
\* script runs.
GatewayReturns ==
    /\ GatewayPending
    /\ \E response \in GatewayResponses :
          session_state' =
              script_run([session_state EXCEPT
                  !.ai_explanation = get_ai_nomenclature_explanation_st(
                                         op.service_available, response)])
    /\ op' = [op EXCEPT !.name = "gateway_return"]
    /\ UNCHANGED practice_problems
    /\ HarnessIdle

\* Mutant of NextProblem: the button is enabled by a right answer only.
NextProblemAfterRightAnswer ==
    /\ session_state.app_stage = "quiz"
    /\ ~GatewayPending
    /\ session_state.is_current_problem_correct
    /\ session_state' = script_run(go_to_next_problem_callback(session_state))
    /\ op' = Did("next", FALSE)
    /\ UNCHANGED practice_problems
    /\ HarnessIdle

\* Mutant of NextProblem: the results page shows the button too.
NextProblemOnResultsPage ==
    /\ session_state.app_stage \in {"quiz", "results"}
    /\ ~GatewayPending
    /\ session_state.app_stage = "quiz" => session_state.is_current_problem_answered
    /\ session_state' = script_run(go_to_next_problem_callback(session_state))
    /\ op' = Did("next", FALSE)
    /\ UNCHANGED practice_problems
    /\ HarnessIdle

\* Mutant of NextProblem: the button is never disabled.
NextProblemUngated ==
    /\ session_state.app_stage = "quiz"
    /\ ~GatewayPending
    /\ session_state' = script_run(go_to_next_problem_callback(session_state))
    /\ op' = Did("next", FALSE)
    /\ UNCHANGED practice_problems
    /\ HarnessIdle

\* The Next button, disabled while the current problem is unanswered
\* (line 717); its callback runs before the script does.
NextProblem ==
    /\ session_state.app_stage = "quiz"
    /\ ~GatewayPending
    /\ session_state.is_current_problem_answered
    /\ session_state' = script_run(go_to_next_problem_callback(session_state))
    /\ op' = Did("next", FALSE)
    /\ UNCHANGED practice_problems
    /\ HarnessIdle

\* The quit button of the quiz page.
QuitQuiz ==
    /\ session_state.app_stage = "quiz"
    /\ ~GatewayPending
    /\ session_state' = script_run(reset_to_setup(session_state))
    /\ op' = Did("quit", FALSE)
    /\ UNCHANGED practice_problems
    /\ HarnessIdle

\* The "Start a New Quiz" button of the results page.
RestartQuiz ==
    /\ session_state.app_stage = "results"
    /\ session_state' = script_run(reset_to_setup(session_state))
    /\ op' = Did("restart", FALSE)
    /\ UNCHANGED practice_problems
    /\ HarnessIdle

Init ==
    /\ practice_problems \in Banks
    /\ session_state = script_run(<<>>)
    /\ op = NothingDone
    /\ answer_text = <<>>
    /\ processed_once = <<>>
    /\ processed_twice = <<>>
    /\ verdict_check = <<>>
    /\ text_block = <<>>
    /\ extracted = <<>>
    /\ second_run = <<>>

Next ==
    \/ SelectCategories
    \/ SelectDifficulties
    \/ SetNumProblems
    \/ ValidateBank
    \/ StartPractice
    \/ SubmitAnswer
    \/ GatewayReturns
    \/ NextProblem
    \/ QuitQuiz
    \/ RestartQuiz

Spec == Init /\ [][Next]_vars

---------------------------------------------------------------------------
(* A student who keeps going: the quiz is never quit, a form that can be    *)
(* submitted is submitted, a button that can be pressed is pressed, and the *)
(* call of line 467 returns (its try block returns at line 338, its except  *)
(* block at line 341).                                                      *)

NextWithoutQuit ==
    \/ SelectCategories
    \/ SelectDifficulties
    \/ SetNumProblems
    \/ ValidateBank
    \/ StartPractice
    \/ SubmitAnswer
    \/ GatewayReturns
    \/ NextProblem
    \/ RestartQuiz

SpecProgress ==
    /\ Init
    /\ [][NextWithoutQuit]_vars
    /\ WF_vars(SubmitAnswer)
    /\ WF_vars(GatewayReturns)
    /\ WF_vars(NextProblem)

---------------------------------------------------------------------------
(* Two runs of the program side by side: the same bank, the same sample, the *)
(* same interactions with the same answers; the explanation service may be   *)
(* available in one and not in the other, and returns what it likes in each. *)
(* Both start with the setup page's default configuration.                   *)

TwoRunsIdle ==
    UNCHANGED <<practice_problems, answer_text, processed_once, processed_twice,
                verdict_check, text_block, extracted>>

TwoRunsInit ==
    /\ practice_problems \in Banks
    /\ session_state = script_run(<<>>)
    /\ second_run = script_run(<<>>)
    /\ op = NothingDone
    /\ answer_text = <<>>
    /\ processed_once = <<>>
    /\ processed_twice = <<>>
    /\ verdict_check = <<>>
    /\ text_block = <<>>
    /\ extracted = <<>>

\* "Start Practice" in both runs; random.sample draws the same list.
TwoRunsStart ==
    /\ session_state.app_stage = "setup"
    /\ second_run.app_stage = "setup"
    /\ \E rnd \in Permutations(Len(practice_problems)) :
          LET started(ss) ==
                  LET quiz == setup_new_quiz_st(ss, practice_problems, rnd)
                  IN  IF quiz.app_stage = "quiz" THEN script_run(quiz) ELSE quiz
          IN  /\ session_state' = started(session_state)
              /\ second_run' = started(second_run)
    /\ op' = Did("start", FALSE)
    /\ TwoRunsIdle

\* The same answer is submitted in both runs; the handler runs to its end in
\* each, with its own service.
TwoRunsSubmit ==
    /\ session_state.app_stage = "quiz"
    /\ second_run.app_stage = "quiz"
    /\ LET box_disabled == \/ session_state.disable_answer_input
                           \/ Falsy(session_state.current_mol_smiles)
       IN  \E text \in (IF box_disabled THEN {session_state.student_answer}
                                        ELSE AnswerPool),
              first_available \in BOOLEAN, second_available \in BOOLEAN,
              first_response \in GatewayResponses,
              second_response \in GatewayResponses :
              /\ session_state' =
                     script_run(handle_answer_submission_st(
                         [session_state EXCEPT !.student_answer = text],
                         first_available, first_response))
              /\ second_run' =
                     script_run(handle_answer_submission_st(
                         [second_run EXCEPT !.student_answer = text],
                         second_available, second_response))
    /\ op' = Did("submit", FALSE)
    /\ TwoRunsIdle

\* The Next button is pressed in both runs.
TwoRunsNext ==
    /\ session_state.app_stage = "quiz"
    /\ second_run.app_stage = "quiz"
    /\ session_state.is_current_problem_answered
    /\ second_run.is_current_problem_answered
    /\ session_state' = script_run(go_to_next_problem_callback(session_state))
    /\ second_run' = script_run(go_to_next_problem_callback(second_run))
    /\ op' = Did("next", FALSE)
    /\ TwoRunsIdle

\* The quit button is pressed in both runs.
TwoRunsQuit ==
    /\ session_state.app_stage = "quiz"
    /\ second_run.app_stage = "quiz"
    /\ session_state' = script_run(reset_to_setup(session_state))
    /\ second_run' = script_run(reset_to_setup(second_run))
    /\ op' = Did("quit", FALSE)
    /\ TwoRunsIdle

\* "Start a New Quiz" is pressed in both runs.
TwoRunsRestart ==
    /\ session_state.app_stage = "results"
    /\ second_run.app_stage = "results"
    /\ session_state' = script_run(reset_to_setup(session_state))
    /\ second_run' = script_run(reset_to_setup(second_run))
    /\ op' = Did("restart", FALSE)
    /\ TwoRunsIdle

TwoRunsStep ==
    \/ TwoRunsStart
    \/ TwoRunsSubmit
    \/ TwoRunsNext
    \/ TwoRunsQuit
    \/ TwoRunsRestart

SpecTwoRuns == TwoRunsInit /\ [][TwoRunsStep]_vars

---------------------------------------------------------------------------
(* Normalisation on its own: every name string up to MaxNameLen characters *)
(* is normalised once, and the result is normalised again.                 *)

\* A letter in both cases, a locant, and the characters normalisation removes.
NameChars == {"a", "A", "2", " ", "-", "\t"}

NameStrings == UNION {[1..n -> NameChars] : n \in 0..MaxNameLen}

NormalizeInit ==
    /\ practice_problems = <<>>
    /\ session_state = script_run(<<>>)
    /\ op = NothingDone
    /\ answer_text \in NameStrings
    /\ processed_once = <<>>
    /\ processed_twice = <<>>
    /\ verdict_check = <<>>
    /\ text_block = <<>>
    /\ extracted = <<>>
    /\ second_run = <<>>

NormalizeOnce ==
    /\ op.name = "init"
    /\ processed_once' = processed(answer_text)
    /\ op' = [op EXCEPT !.name = "processed_once"]
    /\ UNCHANGED <<practice_problems, session_state, answer_text, processed_twice,
                   verdict_check, text_block, extracted, second_run>>

NormalizeTwice ==
    /\ op.name = "processed_once"
    /\ processed_twice' = processed(processed_once)
    /\ op' = [op EXCEPT !.name = "processed_twice"]
    /\ UNCHANGED <<practice_problems, session_state, answer_text, processed_once,
                   verdict_check, text_block, extracted, second_run>>

NormalizeNext == NormalizeOnce \/ NormalizeTwice

SpecNormalize == NormalizeInit /\ [][NormalizeNext]_vars

---------------------------------------------------------------------------
(* The verdict on its own: a name string and a variant of it that differs   *)
(* in one letter's case, in one space or hyphen, or in one whitespace       *)
(* character at an end, are both compared with a problem's names.           *)

\* str.upper() on one character.
UpperChar(c) ==
    IF \E i \in 1..Len(LowerCase) : LowerCase[i] = c
    THEN UpperCase[CHOOSE i \in 1..Len(LowerCase) : LowerCase[i] = c]
    ELSE c

\* The string s with the character c put in after its first k characters.
InsertAt(s, k, c) == SubSeq(s, 1, k) \o <<c>> \o SubSeq(s, k + 1, Len(s))

\* What a student may type instead of s and mean the same name.
Variants(s) ==
    {[s EXCEPT ![i] = IF LowerChar(@) # @ THEN LowerChar(@) ELSE UpperChar(@)] :
        i \in 1..Len(s)}
    \cup {InsertAt(s, k, c) : k \in 0..Len(s), c \in {" ", "-"}}
    \cup {<<"\t">> \o s, s \o <<"\t">>}

\* Names over NameChars, as load_current_problem_details hands them to the
\* comparison: the name and the list of alternative names.
HarnessProblems ==
    { [name |-> <<"a", "-", "2">>, alternatives |-> <<>>],
      [name |-> <<"a">>, alternatives |-> << <<"2", " ", "A">> >>] }

VerdictInit ==
    /\ practice_problems = <<>>
    /\ session_state = script_run(<<>>)
    /\ op = NothingDone
    /\ answer_text \in NameStrings
    /\ processed_once = <<>>
    /\ processed_twice = <<>>
    /\ verdict_check = <<>>
    /\ text_block = <<>>
    /\ extracted = <<>>
    /\ second_run = <<>>

\* Lines 429-434 applied to the string and to one of its variants.
CompareVerdicts ==
    /\ op.name = "init"
    /\ \E variant \in Variants(answer_text), problem \in HarnessProblems :
          verdict_check' =
              [name |-> problem.name, alternatives |-> problem.alternatives,
               variant |-> variant,
               first |-> is_correct(answer_text, problem.name, problem.alternatives),
               second |-> is_correct(variant, problem.name, problem.alternatives)]
    /\ op' = [op EXCEPT !.name = "compare_verdicts"]
    /\ UNCHANGED <<practice_problems, session_state, answer_text,
                   processed_once, processed_twice, text_block, extracted,
                   second_run>>

VerdictNext == CompareVerdicts

SpecVerdict == VerdictInit /\ [][VerdictNext]_vars

---------------------------------------------------------------------------
(* The extraction on its own: every text of up to MaxLines lines, each of   *)
(* one of the shapes below, is extracted once.                              *)

\* An error step, the same with a bullet and a trailing space, a correct
\* step, a step whose mark is followed by a parenthesis (the prompt's format
\* line writes the marks in parentheses), a comment, the same indented and
\* with a bullet, a line of general commentary, and a blank line.
LineShapes ==
    { <<"Step ", "1:", CrossMark>>,
      <<"-", " ", "Step ", "2:", CrossMark, " ">>,
      <<"Step ", "3:", CheckMark>>,
      <<"Step ", "4:", "(", CrossMark, ")">>,
      <<"Comment:", "why">>,
      <<" ", "*", " ", "Comment:", "how">>,
      <<"Overall:", "good">>,
      <<" ">> }

TextBlocks == UNION {[1..n -> LineShapes] : n \in 0..MaxLines}

ExtractInit ==
    /\ practice_problems = <<>>
    /\ session_state = script_run(<<>>)
    /\ op = NothingDone
    /\ answer_text = <<>>
    /\ processed_once = <<>>
    /\ processed_twice = <<>>
    /\ verdict_check = <<>>
    /\ text_block \in TextBlocks
    /\ extracted = <<>>
    /\ second_run = <<>>

\* Line 338: the response text goes through the extraction.
Extract ==
    /\ op.name = "init"
    /\ extracted' = extract_error_steps_and_comments(text_block)
    /\ op' = [op EXCEPT !.name = "extracted"]
    /\ UNCHANGED <<practice_problems, session_state, answer_text,
                   processed_once, processed_twice, verdict_check, text_block,
                   second_run>>

ExtractNext == Extract

SpecExtract == ExtractInit /\ [][ExtractNext]_vars

---------------------------------------------------------------------------
(* The validation on its own: every bank of up to MaxBankLen records, each  *)
(* of one of the shapes below, is validated.                                *)

\* Two records that parse, one with a syntax error, one with a valence
\* error, one without the smiles key and one with an empty SMILES string.
RecordShapes ==
    { BankProblems[1],
      BankProblems[2],
      OptionalKeyProblems[3],
      [smiles |-> "C(C)(C)(C)(C)C", name |-> butane, condensed |-> "C(CH3)5",
       category |-> "Branched-chain Alkane", difficulty |-> "Hard"],
      [name |-> ethanol, condensed |-> "CH3CH2OH",
       category |-> "Alkanol", difficulty |-> "Easy"],
      [smiles |-> "", name |-> ethenol, condensed |-> "CH2CHOH",
       category |-> "Alkanol", difficulty |-> "Easy"] }

ValidationBanks == UNION {[1..n -> RecordShapes] : n \in 0..MaxBankLen}

ValidateInit ==
    /\ practice_problems \in ValidationBanks
    /\ session_state = script_run(<<>>)
    /\ op = NothingDone
    /\ answer_text = <<>>
    /\ processed_once = <<>>
    /\ processed_twice = <<>>
    /\ verdict_check = <<>>
    /\ text_block = <<>>
    /\ extracted = <<>>
    /\ second_run = <<>>

ValidateNext == ValidateBank

SpecValidate == ValidateInit /\ [][ValidateNext]_vars

---------------------------------------------------------------------------
(* Properties.  Shorthands for the session's fields first. *)

stage == session_state.app_stage
problems == session_state.quiz_problems_list
index == session_state.problem_index
total == session_state.total_problems_in_quiz
score == session_state.current_score
answered == session_state.is_current_problem_answered

\* Whether a bank record passes the two filters of a configuration.
Matches(p, categories, difficulties) ==
    /\ categories # <<>> => p.category \in Elems(categories)
    /\ difficulties # <<>> => p.difficulty \in Elems(difficulties)

\* The bank records that pass the session's filters.
MatchingRecords ==
    {i \in 1..Len(practice_problems) :
        Matches(practice_problems[i], session_state.selected_categories,
                session_state.selected_difficulties)}

\* C1: in every reachable state the score is at least 0 and at most
\* total_problems_in_quiz, which is the length of the session's problem list.
C1_ScoreWithinBounds ==
    /\ 0 <= score
    /\ score <= total
    /\ total = Len(problems)

\* C1 witness: a quiz of at least two problems in which every answer was right.
C1_Witness_FullScore == total >= 2 /\ score = total

\* C2: within a session, no submit and no advance lowers the score.
C2_ScoreNeverDecreases ==
    [][op'.name \in {"submit", "gateway_return", "next"}
          => session_state'.current_score >= session_state.current_score]_vars

\* C2 witness: a wrong answer was submitted while the score stood at 1.
C2_Witness_WrongAfterRight ==
    /\ op.name = "submit" /\ ~op.answered_before
    /\ answered /\ ~session_state.is_current_problem_correct
    /\ score = 1

\* C3: a start whose non-empty filters match no record of the bank leaves the
\* stage at setup and the whole session state as it was.
C3_FailedStartChangesNothing ==
    [][(/\ op'.name = "start"
        /\ \/ session_state.selected_categories # <<>>
           \/ session_state.selected_difficulties # <<>>
        /\ MatchingRecords = {})
          => /\ session_state' = session_state
             /\ session_state'.app_stage = "setup"]_vars

\* C3 witness: Start was pressed with filters that no record of a non-empty
\* bank passes.
C3_Witness_NoMatch ==
    /\ op.name = "start"
    /\ stage = "setup"
    /\ practice_problems # <<>>
    /\ session_state.selected_categories # <<>>
    /\ MatchingRecords = {}

\* C4: after a successful start the problem list has exactly
\* min(requested, matching) entries and no entry occurs in it twice.
C4_SampleDistinct ==
    (op.name = "start" /\ stage = "quiz")
        => /\ Len(problems) =
                  Min(session_state.num_problems_requested, Cardinality(MatchingRecords))
           /\ \A i, j \in 1..Len(problems) : problems[i] = problems[j] => i = j

\* C4 witness: a start that asked for more problems than the filters match.
C4_Witness_Clamped ==
    /\ op.name = "start" /\ stage = "quiz"
    /\ session_state.selected_categories # <<>>
    /\ session_state.num_problems_requested > Cardinality(MatchingRecords)
    /\ Len(problems) = Cardinality(MatchingRecords)

\* C5: every record of the session's problem list passes both filters, and
\* with both filters empty the whole bank is what the sample is drawn from.
C5_SampleMatchesFilters ==
    /\ \A i \in 1..Len(problems) :
          Matches(problems[i], session_state.selected_categories,
                  session_state.selected_difficulties)
    /\ (session_state.selected_categories = <<>>
        /\ session_state.selected_difficulties = <<>>)
          => filtered_problems(session_state, practice_problems) = practice_problems

\* C5 witness: a quiz started under a category filter and a difficulty filter
\* that only a part of the bank passes.
C5_Witness_Filtered ==
    /\ stage = "quiz"
    /\ session_state.selected_categories # <<>>
    /\ session_state.selected_difficulties # <<>>
    /\ MatchingRecords # {}
    /\ Cardinality(MatchingRecords) < Len(practice_problems)

\* C6: a submission that finds the current problem already answered changes
\* neither the score, the answered flag, the correctness flag, the feedback
\* message nor the explanation, and does not reach the explanation service.
C6_SubmitWhenAnsweredIsNoOp ==
    [][(op'.name = "submit" /\ session_state.is_current_problem_answered)
          => /\ session_state'.current_score = session_state.current_score
             /\ session_state'.is_current_problem_answered
             /\ session_state'.is_current_problem_correct
                    = session_state.is_current_problem_correct
             /\ session_state'.feedback_message = session_state.feedback_message
             /\ session_state'.ai_explanation = session_state.ai_explanation
             /\ ~op'.gateway_invoked]_vars

\* C6 witness: the form arrived again for a problem that was answered
\* correctly.
C6_Witness_Resubmitted ==
    /\ op.name = "submit" /\ op.answered_before
    /\ session_state.is_current_problem_correct
    /\ score >= 1

\* C7: problem_index never grows in a step that begins with the current
\* problem unanswered.
C7_AdvanceOnlyWhenAnswered ==
    [][session_state'.problem_index > session_state.problem_index
          => session_state.is_current_problem_answered]_vars

\* C7 witness: the Next button moved the session to its second problem.
C7_Witness_Advanced == op.name = "next" /\ stage = "quiz" /\ index = 1

\* The next problem of the list, when an advance stays in the quiz.
NextRecord == problems[index + 2]

\* C8 as claimed: an advance moves the index by one; at the end of the list
\* the stage becomes results, otherwise the quiz goes on with the problem
\* unanswered, feedback and explanation cleared, and the descriptor and name
\* of the problem at the new index.
C8_AdvanceAsClaimed ==
    [][op'.name = "next"
          => /\ session_state'.problem_index = index + 1
             /\ IF index + 1 = Len(problems)
                THEN session_state'.app_stage = "results"
                ELSE /\ session_state'.app_stage = "quiz"
                     /\ ~session_state'.is_current_problem_answered
                     /\ session_state'.feedback_message = <<>>
                     /\ session_state'.ai_explanation = ""
                     /\ session_state'.current_mol_smiles = NextRecord.smiles
                     /\ session_state'.current_correct_name = NextRecord.name]_vars

\* C8 amended: as claimed when the next problem's SMILES parses; when it does
\* not, the problem arrives answered and not correct, with the loading-error
\* feedback and without a molecule.  In both cases the explanation is cleared
\* and the name is that of the problem at the new index.
C8_AdvanceLoadsNextProblem ==
    [][op'.name = "next"
          => /\ session_state'.problem_index = index + 1
             /\ IF index + 1 = Len(problems)
                THEN session_state'.app_stage = "results"
                ELSE /\ session_state'.app_stage = "quiz"
                     /\ session_state'.ai_explanation = ""
                     /\ session_state'.current_correct_name = NextRecord.name
                     /\ ~session_state'.is_current_problem_correct
                     /\ IF MolFromSmiles(NextRecord.smiles)
                        THEN /\ ~session_state'.is_current_problem_answered
                             /\ session_state'.feedback_message = <<>>
                             /\ session_state'.current_mol_smiles = NextRecord.smiles
                        ELSE /\ session_state'.is_current_problem_answered
                             /\ session_state'.feedback_message = LoadErrorMessage
                             /\ session_state'.current_mol_smiles = None]_vars

\* C8 witness: an advance away from an answered problem that had feedback,
\* onto a problem that loaded.
C8_Witness_NextLoaded ==
    /\ op.name = "next" /\ stage = "quiz" /\ index >= 1
    /\ ~answered
    /\ session_state.current_mol_smiles = problems[index + 1].smiles

\* The accepted names of a bank record: its name and its alternative names, a
\* list of names or one bare name.
AcceptedNames(p) ==
    {p.name} \cup
    (IF "alternative_names" \in DOMAIN p
     THEN IF "str" \in DOMAIN p.alternative_names
          THEN {p.alternative_names.str}
          ELSE Elems(p.alternative_names.list)
     ELSE {})

\* C9: a submission on an unanswered problem marks it correct exactly when
\* the normalised answer equals the normalised name, or the normalised form
\* of an alternative name, of the problem at the current index.
C9_CorrectIffAccepted ==
    [][(op'.name = "submit" /\ ~session_state.is_current_problem_answered)
          => /\ session_state'.is_current_problem_answered
             /\ session_state'.is_current_problem_correct
                  <=> \E accepted \in AcceptedNames(problems[index + 1]) :
                         processed(session_state'.student_answer) = processed(accepted)]_vars

\* C9 witness: an answer was accepted for an alternative name, not for the
\* problem's own name.
C9_Witness_AlternativeAccepted ==
    /\ op.name = "submit" /\ ~op.answered_before
    /\ session_state.is_current_problem_correct
    /\ processed(session_state.student_answer)
           # processed(session_state.current_correct_name)

\* C10: normalising a normalised name changes nothing.
C10_NormalizationIdempotent ==
    op.name = "processed_twice" => processed_twice = processed_once

\* C10 witness: a name with a capital, a space and a hyphen went through both
\* normalisations.
C10_Witness_NormalizedTwice ==
    /\ op.name = "processed_twice"
    /\ answer_text = <<"A", " ", "-">>
    /\ processed_twice = <<"a">>

\* The characters of a name that are neither spaces nor hyphens, in lower
\* case and without whitespace at the ends.
Skeleton(s) == strip(remove(remove(lower(s), " "), "-"))

\* C11: two answers that differ only in letter case, in whitespace at the
\* ends and in spaces or hyphens get the same verdict, and an accepted answer
\* has the characters of an accepted name once spaces and hyphens are left out.
C11_VerdictIgnoresCaseAndSeparators ==
    op.name = "compare_verdicts"
        => /\ verdict_check.first = verdict_check.second
           /\ verdict_check.first
                  => \E accepted \in {verdict_check.name}
                                         \cup Elems(verdict_check.alternatives) :
                         Skeleton(answer_text) = Skeleton(accepted)

\* C11 witness: a hyphen was put into an accepted answer and the answer is
\* still accepted.
C11_Witness_HyphenIgnored ==
    /\ op.name = "compare_verdicts"
    /\ verdict_check.first /\ verdict_check.second
    /\ remove(verdict_check.variant, "-") = answer_text
    /\ verdict_check.variant # answer_text

feedback == session_state.feedback_message
ai_explanation == session_state.ai_explanation

\* The common_errors entries of a problem whose name, normalised, is the
\* normalised answer.
MatchingErrorEntries(p, student_answer) ==
    LET entries == IF "common_errors" \in DOMAIN p THEN p.common_errors ELSE <<>>
    IN  {e \in Elems(entries) : processed(student_answer) = processed(e.incorrect_name)}

\* Whether a feedback message carries a custom explanation.
HasCustomExplanation(message) ==
    \E i \in 1..Len(message) : message[i].part = "Explanation for your answer"

\* C12: a wrong answer that matches a common-error entry puts that entry's
\* explanation into the feedback, does not call the explanation service and
\* leaves the generated explanation empty; no state holds a custom and a
\* generated explanation together.
C12_CustomExplanationPrecedence ==
    [][/\ (/\ op'.name = "submit" /\ ~answered
           /\ ~session_state'.is_current_problem_correct
           /\ MatchingErrorEntries(problems[index + 1],
                                   session_state'.student_answer) # {})
          => /\ \E e \in MatchingErrorEntries(problems[index + 1],
                                               session_state'.student_answer) :
                    \E i \in 1..Len(session_state'.feedback_message) :
                       session_state'.feedback_message[i] =
                           [part |-> "Explanation for your answer",
                            explanation |-> e.explanation]
             /\ ~op'.gateway_invoked
             /\ session_state'.ai_explanation = ""
       /\ ~(/\ HasCustomExplanation(session_state'.feedback_message)
            /\ session_state'.ai_explanation # "")]_vars

\* C12 witness: a submission got a custom explanation while the explanation
\* service was available.
C12_Witness_CustomExplained ==
    /\ op.name = "submit" /\ op.service_available /\ ~op.gateway_invoked
    /\ HasCustomExplanation(feedback)
    /\ ai_explanation = ""

\* C13: when a wrong answer without a custom explanation reaches the call of
\* the explanation service, the problem is already answered and incorrect,
\* the feedback is written and the score is the one before the submission;
\* whatever the call returns, the diagnostic of a failed call included, only
\* the explanation changes, and the Next button is enabled afterwards.
C13_GatewayFailureContained ==
    /\ [][/\ (op'.name = "submit" /\ op'.gateway_invoked)
             => /\ session_state'.is_current_problem_answered
                /\ ~session_state'.is_current_problem_correct
                /\ session_state'.current_score = score
                /\ session_state'.feedback_message # <<>>
                /\ session_state'.feedback_message[1] = [part |-> "Incorrect"]
                /\ ~HasCustomExplanation(session_state'.feedback_message)
          /\ op'.name = "gateway_return"
             => /\ session_state' =
                       [session_state EXCEPT
                           !.ai_explanation = session_state'.ai_explanation]
                /\ session_state'.ai_explanation \in GatewayResponses
                /\ session_state'.is_current_problem_answered
                /\ ~session_state'.is_current_problem_correct]_vars
    /\ [](op.name = "gateway_return" => ENABLED NextProblem)

\* C13 witness: the call failed and its diagnostic is the stored explanation
\* of an answered, incorrect problem.
C13_Witness_GatewayFailed ==
    /\ op.name = "gateway_return"
    /\ ai_explanation = GatewayError
    /\ answered /\ ~session_state.is_current_problem_correct
    /\ score = 1

\* The feedback of a wrong answer without any explanation: the verdict, the
\* student's answer and the correct names.
PlainIncorrectFeedback(ss) ==
    << [part |-> "Incorrect"],
       [part |-> "Your answer", answer |-> ss.student_answer],
       [part |-> "Correct answer(s)", name |-> ss.current_correct_name,
        alternatives |-> ss.current_alternative_names] >>

\* C14 as claimed: a wrong answer submitted while the explanation service is
\* unavailable does not call the service, stores an empty explanation and
\* gets a feedback of nothing but the student's answer and the correct names;
\* the service is called only by a submission that found it available.
C14_UnavailableAsClaimed ==
    [][/\ (/\ op'.name = "submit" /\ ~answered
           /\ ~session_state'.is_current_problem_correct
           /\ ~op'.service_available)
          => /\ ~op'.gateway_invoked
             /\ session_state'.ai_explanation = ""
             /\ session_state'.feedback_message = PlainIncorrectFeedback(session_state')
       /\ op'.gateway_invoked => op'.service_available]_vars

\* C14: a wrong answer submitted while the explanation service is unavailable
\* does not call the service and stores an empty explanation; its feedback is
\* the student's answer and the correct names, followed by the custom
\* explanation when a common-error entry matches the answer and by nothing
\* otherwise; the service is called only by a submission that found it
\* available.
C14_UnavailableMeansNoGeneratedExplanation ==
    [][/\ (/\ op'.name = "submit" /\ ~answered
           /\ ~session_state'.is_current_problem_correct
           /\ ~op'.service_available)
          => /\ ~op'.gateway_invoked
             /\ session_state'.ai_explanation = ""
             /\ SubSeq(session_state'.feedback_message, 1, 3)
                    = PlainIncorrectFeedback(session_state')
             /\ IF MatchingErrorEntries(problems[index + 1],
                                        session_state'.student_answer) = {}
                THEN Len(session_state'.feedback_message) = 3
                ELSE /\ Len(session_state'.feedback_message) = 4
                     /\ session_state'.feedback_message[4].part
                            = "Explanation for your answer"
       /\ op'.gateway_invoked => op'.service_available]_vars

\* C14 witness: the second problem of a quiz was answered wrongly while the
\* service was unavailable, and its feedback is the plain one.
C14_Witness_Unavailable ==
    /\ op.name = "submit" /\ ~op.answered_before /\ ~op.service_available
    /\ answered /\ ~session_state.is_current_problem_correct
    /\ index = 1
    /\ feedback = PlainIncorrectFeedback(session_state)
    /\ ai_explanation = ""

\* The quiz stands at a problem whose SMILES string RDKit does not parse.
LoadFailed(ss) ==
    /\ ss.app_stage = "quiz"
    /\ ss.problem_index < Len(ss.quiz_problems_list)
    /\ ~MolFromSmiles(ss.quiz_problems_list[ss.problem_index + 1].smiles)

\* C15: a start or an advance that loads a problem whose SMILES string does
\* not parse leaves it answered, not correct, with the loading-error feedback;
\* a submission on such a problem changes nothing and calls no service, no
\* submission and no advance from it changes the score, and the Next button
\* is enabled on it.
C15_LoadFailureIsPreAnswered ==
    /\ [][/\ (op'.name \in {"start", "next"} /\ LoadFailed(session_state'))
             => /\ session_state'.is_current_problem_answered
                /\ ~session_state'.is_current_problem_correct
                /\ session_state'.feedback_message = LoadErrorMessage
          /\ (op'.name = "submit" /\ LoadFailed(session_state))
             => /\ session_state' = session_state
                /\ ~op'.gateway_invoked
          /\ (op'.name \in {"submit", "next"} /\ LoadFailed(session_state))
             => session_state'.current_score = score]_vars
    /\ [](LoadFailed(session_state) => ENABLED NextProblem)

\* C15 witness: the form was submitted on a problem that failed to load,
\* after a right answer to the problem before it.
C15_Witness_SubmitOnLoadFailure ==
    /\ op.name = "submit"
    /\ LoadFailed(session_state)
    /\ feedback = LoadErrorMessage
    /\ score = 1

\* C16: the quit button is there on every quiz page and the restart button
\* on every results page, and both end in the setup stage with the session
\* gone: no problems, index, total and score 0, nothing answered, no
\* feedback, no explanation, no molecule.
C16_ResetDiscardsSession ==
    /\ [][op'.name \in {"quit", "restart"}
             => /\ session_state'.app_stage = "setup"
                /\ session_state'.quiz_problems_list = <<>>
                /\ session_state'.problem_index = 0
                /\ session_state'.total_problems_in_quiz = 0
                /\ session_state'.current_score = 0
                /\ ~session_state'.is_current_problem_answered
                /\ ~session_state'.is_current_problem_correct
                /\ session_state'.feedback_message = <<>>
                /\ session_state'.ai_explanation = ""
                /\ session_state'.student_answer = <<>>
                /\ session_state'.current_mol_smiles = None]_vars
    /\ []((stage = "quiz" /\ ~GatewayPending) => ENABLED QuitQuiz)
    /\ [](stage = "results" => ENABLED RestartQuiz)

\* C16 witness: the quiz was quit on an answered problem.
C16_Witness_QuitAfterAnswer ==
    /\ op.name = "quit" /\ op.answered_before
    /\ stage = "setup" /\ problems = <<>> /\ score = 0

\* The kinds of line of a response, read off the line without its
\* surrounding whitespace and its bullet.
IsStepLine(line) == startswith(processed_line_content(line), "Step ")
IsIncorrectStep(line) ==
    IsStepLine(line) /\ endswith(processed_line_content(line), CrossMark)
IsCorrectStep(line) ==
    IsStepLine(line) /\ endswith(processed_line_content(line), CheckMark)
IsComment(line) == startswith(processed_line_content(line), "Comment:")
IsBlank(line) == strip(line) = <<>>

\* The lines of the harness's text.
InputLines == split_lines(text_block)

\* The output that retains the lines at the positions K, in the input's order.
OutputRetaining(K) ==
    LET positions == SelectSeq([i \in 1..Len(InputLines) |-> i], LAMBDA i : i \in K)
    IN  html_list([k \in 1..Len(positions) |->
                      processed_line_content(InputLines[positions[k]])])

\* The nearest line before position i that is not blank, 0 if there is none.
PreviousLine(i) ==
    LET before == {j \in 1..(i - 1) : ~IsBlank(InputLines[j])}
    IN  IF before = {} THEN 0 ELSE CHOOSE j \in before : \A m \in before : m <= j

\* The comment at position i comes after a correct step with no other step
\* line between them.
FollowsCorrectStep(i) ==
    \E j \in 1..(i - 1) :
        /\ IsCorrectStep(InputLines[j])
        /\ \A m \in (j + 1)..(i - 1) : ~IsStepLine(InputLines[m])

\* C18: the output of the extraction retains a comment line only when the
\* line before it in the input is a retained incorrect-step line.
C18_CommentOnlyAfterIncorrectStep ==
    op.name = "extracted"
        => \E K \in SUBSET (1..Len(InputLines)) :
              /\ extracted = OutputRetaining(K)
              /\ \A i \in K :
                    IsComment(InputLines[i])
                        => /\ PreviousLine(i) \in K
                           /\ IsIncorrectStep(InputLines[PreviousLine(i)])

\* C18 witness: an incorrect step and the comment after it were retained.
C18_Witness_StepAndComment ==
    /\ op.name = "extracted"
    /\ Len(text_block) = 2
    /\ IsIncorrectStep(text_block[1]) /\ IsComment(text_block[2])
    /\ extracted = OutputRetaining({1, 2})

C20_FinishedAtLastAdvance ==
    /\ [][op'.name = "next"
             => /\ op'.advances = op.advances + 1
                /\ op'.advances <= Len(problems)
                /\ op'.advances < Len(problems)
                      => session_state'.app_stage = "quiz"
                /\ op'.advances = Len(problems)
                      => /\ session_state'.app_stage = "results"
                         /\ session_state'.current_score \in 0..Len(problems)
                /\ session_state'.quiz_problems_list = problems]_vars
    /\ [](stage = "results"
             => op.name = "next" /\ op.advances = Len(problems))
    /\ [](op.name = "start" => op.advances = 0)

\* C20 witness: the results page after the second advance of a quiz of two
\* problems, one of them answered right.
C20_Witness_FinishedAfterTwo ==
    /\ stage = "results"
    /\ op.name = "next" /\ op.advances = 2
    /\ Len(problems) = 2
    /\ score = 1

\* The session state a press of "Start Practice" would leave, were the button
\* pressed in the current state with a generator that keeps the bank's order.
StartedFromHere ==
    script_run(setup_new_quiz_st(session_state, practice_problems,
                                 [i \in 1..Len(practice_problems) |-> i]))

\* Whether that press would get past the early returns of lines 514-529.
StartSucceedsHere == filtered_problems(session_state, practice_problems) # <<>>

\* What C21 says of the state ss after a successful start; the feedback is
\* cleared whether or not the first problem loaded.
FreshSessionAsClaimed(ss) ==
    /\ ss.app_stage = "quiz"
    /\ ss.problem_index = 0
    /\ ss.current_score = 0
    /\ ss.feedback_message = <<>>
    /\ ss.ai_explanation = ""
    /\ ss.is_current_problem_answered <=> LoadFailed(ss)

\* The same, with the loading-error feedback on a first problem that failed
\* to load.
FreshSession(ss) ==
    /\ ss.app_stage = "quiz"
    /\ ss.problem_index = 0
    /\ ss.current_score = 0
    /\ ss.ai_explanation = ""
    /\ ~ss.is_current_problem_correct
    /\ IF LoadFailed(ss)
       THEN ss.is_current_problem_answered /\ ss.feedback_message = LoadErrorMessage
       ELSE ~ss.is_current_problem_answered /\ ss.feedback_message = <<>>

\* C21 as claimed: a successful start leaves index 0, score 0, the quiz
\* stage, no feedback and no explanation, and the first problem unanswered
\* unless it failed to load.
C21_StartAsClaimed ==
    [][(op'.name = "start" /\ session_state'.app_stage = "quiz")
          => FreshSessionAsClaimed(session_state')]_vars

\* C21: a successful start leaves index 0, score 0, the quiz stage and no
\* explanation; the first problem is unanswered with no feedback, or, when it
\* failed to load, answered with the loading-error feedback.  The same holds
\* of the start handler run in any reachable state, whatever index, score and
\* feedback that state holds.
C21_StartResetsSession ==
    /\ [][(op'.name = "start" /\ session_state'.app_stage = "quiz")
             => FreshSession(session_state')]_vars
    /\ [](StartSucceedsHere => FreshSession(StartedFromHere))

\* C21 witness: a quiz was started and its first problem loaded.
C21_Witness_Started ==
    /\ op.name = "start" /\ stage = "quiz"
    /\ ~LoadFailed(session_state)
    /\ ~answered /\ feedback = <<>>
    /\ Len(problems) >= 2

\* C22: a submission on an unanswered problem adds 1 to the score when the
\* answer is an accepted name and nothing otherwise, marks the problem
\* answered and correct or incorrect accordingly, writes a feedback message,
\* and leaves the index, the problem list and the total alone; so does the
\* return of the explanation service that belongs to it.
C22_SubmitScoresOnce ==
    [][/\ (op'.name = "submit" /\ ~answered)
          => LET accepted_answer ==
                     \E accepted \in AcceptedNames(problems[index + 1]) :
                         processed(session_state'.student_answer) = processed(accepted)
             IN  /\ session_state'.current_score
                        = score + (IF accepted_answer THEN 1 ELSE 0)
                 /\ session_state'.is_current_problem_answered
                 /\ session_state'.is_current_problem_correct <=> accepted_answer
                 /\ session_state'.feedback_message # <<>>
                 /\ session_state'.feedback_message[1].part
                        = (IF accepted_answer THEN "Correct" ELSE "Incorrect")
                 /\ session_state'.problem_index = index
                 /\ session_state'.quiz_problems_list = problems
                 /\ session_state'.total_problems_in_quiz = total
       /\ op'.name = "gateway_return"
          => /\ session_state'.current_score = score
             /\ session_state'.problem_index = index
             /\ session_state'.quiz_problems_list = problems
             /\ session_state'.feedback_message = feedback]_vars

\* C22 witness: the right answer to the second problem, after a wrong answer
\* to the first.
C22_Witness_SecondRight ==
    /\ op.name = "submit" /\ ~op.answered_before
    /\ session_state.is_current_problem_correct
    /\ index = 1 /\ score = 1

\* Whether a record's SMILES string is missing, empty or rejected by RDKit.
DescriptorBad(p) ==
    \/ "smiles" \notin DOMAIN p
    \/ p.smiles = ""
    \/ ~MolFromSmiles(p.smiles)

\* The positions of the bank's records with a bad descriptor, in bank order.
BadPositions ==
    SelectSeq([i \in 1..Len(practice_problems) |-> i],
              LAMBDA i : DescriptorBad(practice_problems[i]))

\* C24: the validation returns a list of invalid entries and a log; the list
\* has one entry for each record of the bank whose SMILES string is missing,
\* empty or unparseable, in bank order, with the record's position, its name
\* and an error detail, and no entry for any other record; it is empty for an
\* empty bank.
C24_ValidationReport ==
    op.name = "validate"
        => LET entries == op.report.invalid_smiles_entries
           IN  /\ Len(entries) = Len(BadPositions)
               /\ \A k \in 1..Len(entries) :
                     /\ entries[k].index = BadPositions[k]
                     /\ entries[k].name = practice_problems[BadPositions[k]].name
                     /\ entries[k].error_type
                            \in {"Missing SMILES", "Sanitization error",
                                 "SMILES syntax error (failed even without sanitization)."}
               /\ practice_problems = <<>> => entries = <<>>
               /\ op.report.validation_messages # <<>>

\* C24 witness: a bank of three records was validated, the first and the
\* third are reported, the second parses.
C24_Witness_TwoReported ==
    /\ op.name = "validate"
    /\ Len(practice_problems) = 3
    /\ ~DescriptorBad(practice_problems[2])
    /\ Len(op.report.invalid_smiles_entries) = 2
    /\ op.report.invalid_smiles_entries[1].error_type = "Missing SMILES"
    /\ op.report.invalid_smiles_entries[2].index = 3

\* C23: no interaction changes the bank: not the validation, not a start
\* that succeeds or fails, not a submission, an advance or a reset.
C23_BankReadOnly ==
    [][practice_problems' = practice_problems]_vars

\* C23 witness: the bank with the unparseable third record was validated,
\* and the record is reported.
C23_Witness_Validated ==
    /\ op.name = "validate"
    /\ practice_problems = OptionalKeyProblems
    /\ Len(op.report.invalid_smiles_entries) = 1
    /\ op.report.invalid_smiles_entries[1].index = 3

\* The configurations a start can be asked with: any selection of the full
\* bank's categories and difficulties, and any requested number.
Configured(ss) ==
    { [ss EXCEPT !.selected_categories = cats,
                 !.selected_difficulties = diffs,
                 !.num_problems_requested = n] :
        cats \in Selections(ordered_options(BankProblems, "category", {})),
        diffs \in Selections(ordered_options(BankProblems, "difficulty", {})),
        n \in 1..MaxRequested }

\* C25: with an empty bank a start changes nothing: the stage stays "setup"
\* and the session state is what it was, for the start the user can ask for
\* and for the handler under every configuration of filters and number.
C25_EmptyBankStartFails ==
    /\ [][(practice_problems = <<>> /\ op'.name = "start")
             => /\ session_state' = session_state
                /\ session_state'.app_stage = "setup"]_vars
    /\ [](\A cfg \in Configured(session_state) :
             \A rnd \in Permutations(0) :
                 setup_new_quiz_st(cfg, <<>>, rnd) = cfg)

\* C25 witness: a start was asked for with the empty bank.
C25_Witness_StartOnEmptyBank ==
    /\ practice_problems = <<>>
    /\ op.name = "start"
    /\ session_state.app_stage = "setup"
    /\ session_state.selected_categories = <<>>
    /\ session_state.selected_difficulties = <<>>

\* C26: problem_index is always between 0 and total_problems_in_quiz; on
\* the quiz and results pages it equals total_problems_in_quiz exactly on the
\* results page; and no press of Next takes it past the length of the list.
C26_IndexWithinList ==
    /\ [](0 <= index /\ index <= total)
    /\ [](stage \in {"quiz", "results"}
             => (index = total <=> stage = "results"))
    /\ [][op'.name = "next"
             => /\ session_state'.problem_index = session_state.problem_index + 1
                /\ session_state'.problem_index
                       <= Len(session_state'.quiz_problems_list)]_vars

\* C26 witness: the last press of Next of a quiz of three problems left the
\* index at three, on the results page.
C26_Witness_IndexAtLength ==
    /\ op.name = "next"
    /\ stage = "results"
    /\ index = 3 /\ total = 3

\* C27: no submission, no return of the explanation call and no press of
\* Next changes quiz_problems_list or total_problems_in_quiz.
C27_ProblemListFixed ==
    [][op'.name \in {"submit", "gateway_return", "next"}
          => /\ session_state'.quiz_problems_list = session_state.quiz_problems_list
             /\ session_state'.total_problems_in_quiz
                    = session_state.total_problems_in_quiz
             /\ session_state'.total_problems_in_quiz
                    = Len(session_state'.quiz_problems_list)]_vars

\* C27 witness: the third problem of a list of three is on the page after
\* two presses of Next, one answer having been right.
C27_Witness_ThirdOfThree ==
    /\ op.name = "next" /\ op.advances = 2
    /\ stage = "quiz"
    /\ Len(problems) = 3 /\ total = 3
    /\ score = 1

\* C28: on the results page neither a submission, nor the return of an
\* explanation call, nor a press of Next can happen; the only step out of it
\* is the reset of "Start a New Quiz", and any other step leaves the stage,
\* the score, the index and the list as they are, the index being the length
\* of the list and the score at most that.
C28_ResultsAreFinal ==
    /\ [](stage = "results"
             => /\ ~ENABLED SubmitAnswer
                /\ ~ENABLED GatewayReturns
                /\ ~ENABLED NextProblem
                /\ index = Len(problems)
                /\ score <= Len(problems))
    /\ [][session_state.app_stage = "results"
             => \/ op'.name = "restart" /\ session_state'.app_stage = "setup"
                \/ /\ session_state'.app_stage = "results"
                   /\ session_state'.current_score = session_state.current_score
                   /\ session_state'.problem_index = session_state.problem_index
                   /\ session_state'.quiz_problems_list
                          = session_state.quiz_problems_list]_vars

\* C28 witness: the results page of a quiz of two problems whose last
\* problem was answered wrong, the last accepted name still being held.
C28_Witness_FinishedBelowFull ==
    /\ stage = "results"
    /\ Len(problems) = 2 /\ index = 2
    /\ score = 1
    /\ session_state.current_correct_name = problems[2].name
    /\ ~session_state.is_current_problem_answered

\* C29: a quiz that is not quit reaches the results page, whatever the
\* answers are, whether or not a problem fails to load, and whatever the
\* explanation service does, when the student keeps submitting and pressing
\* Next.
C29_SessionsFinish ==
    (stage = "quiz") ~> (stage = "results")

\* C29 witness: the results page of a quiz of three problems with a problem
\* that failed to load, no answer having been right.
C29_Witness_FinishedWithoutScore ==
    /\ stage = "results"
    /\ Len(problems) = 3
    /\ score = 0
    /\ \E i \in 1..3 : DescriptorBad(problems[i])

\* What the claim compares between two runs: stage, index, score, answered
\* flag and correctness flag.
Progression(ss) ==
    <<ss.app_stage, ss.problem_index, ss.current_score,
      ss.is_current_problem_answered, ss.is_current_problem_correct>>

\* C30: two runs that went through the same interactions with the same
\* answers on the same problem list agree on stage, index, score, answered
\* flag and correctness flag, whatever the explanation service was and
\* returned in each.
C30_ServiceDoesNotInfluenceProgression ==
    /\ Progression(session_state) = Progression(second_run)
    /\ session_state.quiz_problems_list = second_run.quiz_problems_list

\* C30 witness: after a wrong answer one run holds an extracted explanation
\* and the other, whose service failed, the diagnostic; later the runs
\* stand at the second problem with one point each.
C30_Witness_RunsDifferInExplanation ==
    /\ op.name = "submit"
    /\ session_state.is_current_problem_answered
    /\ ~session_state.is_current_problem_correct
    /\ session_state.ai_explanation = ExtractedExplanation
    /\ second_run.ai_explanation = GatewayError
    /\ session_state.problem_index = 1
    /\ session_state.current_score = 1

\* C31: the call of the explanation service is reached at most once for
\* each problem of a quiz, only by a submission on a problem that was not yet
\* answered, never for an accepted answer and never for a problem that failed
\* to load; and whenever the current problem is marked correct the stored
\* explanation is empty.
C31_ServiceCalledAtMostOnce ==
    /\ [](op.gateway_calls <= 1)
    /\ [](LoadFailed(session_state) => op.gateway_calls = 0)
    /\ [](session_state.is_current_problem_correct
             => session_state.ai_explanation = "" /\ op.gateway_calls = 0)
    /\ [][(op'.name = "submit" /\ op'.gateway_invoked)
             => /\ ~session_state.is_current_problem_answered
                /\ ~LoadFailed(session_state)
                /\ op.gateway_calls = 0
                /\ session_state'.is_current_problem_answered
                /\ ~session_state'.is_current_problem_correct
                /\ \A accepted \in AcceptedNames(problems[index + 1]) :
                       processed(session_state'.student_answer)
                           # processed(accepted)]_vars

\* C31 witness: the form arrived again for a problem whose wrong answer had
\* been sent to the service; the one call stays the only one.
C31_Witness_ResubmittedAfterCall ==
    /\ op.name = "submit" /\ op.answered_before
    /\ ~op.gateway_invoked
    /\ op.gateway_calls = 1
    /\ session_state.ai_explanation = ExtractedExplanation

\* C32: on the quiz page the problem list is not empty, its length is
\* total_problems_in_quiz, problem_index is below it, and the loaded name and
\* alternative names are those of the record at problem_index (a bare str
\* of alternative_names as a list of one).
C32_QuizWellFormed ==
    stage = "quiz"
        => /\ problems # <<>>
           /\ Len(problems) = total
           /\ 0 <= index /\ index < total
           /\ session_state.current_correct_name = problems[index + 1].name
           /\ session_state.current_alternative_names
                  = alternative_names_of(problems[index + 1])
           /\ Elems(session_state.current_alternative_names) \cup {problems[index + 1].name}
                  = AcceptedNames(problems[index + 1])

\* C32 witness: the quiz stands at its second problem, whose alternative
\* name is a bare str in the bank, after the first was answered right.
C32_Witness_SecondProblemLoaded ==
    /\ stage = "quiz"
    /\ op.name = "next"
    /\ index = 1 /\ score = 1
    /\ "alternative_names" \in DOMAIN problems[2]
    /\ "str" \in DOMAIN problems[2].alternative_names
    /\ session_state.current_alternative_names = <<isopropanol>>
    /\ session_state.current_correct_name # problems[1].name

\* C33: the score is at most problem_index while the current problem is
\* unanswered and at most problem_index + 1 once it is answered, and the
\* correctness flag is never set without the answered flag.
C33_ScoreAtMostAnswered ==
    /\ ~answered => score <= index
    /\ answered => score <= index + 1
    /\ session_state.is_current_problem_correct => answered
    /\ session_state.is_current_problem_correct => score >= 1

\* C33 witness: the second problem of a quiz of three was just answered
\* right, as was the first.
C33_Witness_AllRightSoFar ==
    /\ stage = "quiz"
    /\ op.name = "submit" /\ ~op.answered_before
    /\ Len(problems) = 3
    /\ index = 1
    /\ answered /\ session_state.is_current_problem_correct
    /\ score = 2

===========================================================================
